---- MODULE Spec2Model ----
(***************************************************************************)
(* Model of the gofile download engine shared by Seq-V3.py (sequential     *)
(* policy) and descargador.py (worker-pool policy): URL parsing, token     *)
(* acquisition, remote-tree resolution and the resumable downloader.       *)
(* Paths are sequences of names; the sidecar of a path p is p + ".part".   *)
(* File contents are abstracted to their sizes.  GF_DOWNLOADDIR is unset,   *)
(* so the download directory is the directory the program starts in; the   *)
(* password only adds a query parameter and is left out.  Renaming follows *)
(* POSIX: an open handle keeps writing to the file it was opened on.       *)
(***************************************************************************)
EXTENDS Integers, Sequences, FiniteSets, TLC

\* ------------------------------------------------------------------ bounds
\* longest share URL, in characters, drawn by InitUrl
MaxUrlLen == 4
\* size in bytes of the largest remote file
MaxSize == 3
\* bytes per chunk handed out by iter_content (16384 in the code, scaled)
ChunkSize == 2
\* max_workers of the ThreadPoolExecutor (3 in descargador.py, scaled)
PoolSize == 2
\* number of times the program is run against the same download directory
MaxSessions == 2
\* most entries the downloads container of the window gets
MaxEntries == 2
\* most times the user presses 'Download'
MaxPresses == 2

\* ------------------------------------------------------------- URL parsing
Chars == {"/", "d", "x"}

Urls == UNION {[1..n -> Chars] : n \in 0..MaxUrlLen}

\* str.split("/"): the segments between slashes; "" splits to [""]
RECURSIVE Split(_)
Split(s) ==
    IF s = <<>> THEN << <<>> >>
    ELSE LET rest == Split(Tail(s)) IN
         IF Head(s) = "/" THEN << <<>> >> \o rest
         ELSE << <<Head(s)>> \o Head(rest) >> \o Tail(rest)

\* url.split("/")[-2] raises IndexError when there are fewer than two segments
UrlIndexError(u) == Len(Split(u)) < 2

\* url.split("/")[-2] == "d" (variant: the first segment is compared)
HasMarkerMutant(u) == Split(u)[1] = <<"d">>
HasMarker(u) == Split(u)[Len(Split(u)) - 1] = <<"d">>

\* url.split("/")[-1]
ShareId(u) == Split(u)[Len(Split(u))]

\* ------------------------------------------------------------ remote trees
\* What the contents API serves: node 1 is the share id's node.  A folder
\* lists its childrenIds in order; a file has a direct link (its own node
\* number stands for the link) and a size on the server.
Folder(n, c) == [type |-> "folder", name |-> n, childrenIds |-> c, size |-> 0]
File(n, s) == [type |-> "file", name |-> n, childrenIds |-> <<>>, size |-> s]

\* [F1 (file), D1 (folder containing F2)]
TreeNested ==
    <<Folder("R", <<2, 3>>), File("a", MaxSize), Folder("D", <<4>>), File("b", MaxSize - 1)>>
\* two sibling files carrying the same name
TreeDup ==
    <<Folder("R", <<2, 3>>), File("a", MaxSize), File("a", MaxSize - 1)>>
\* the share is a single file
TreeFile ==
    <<File("a", MaxSize)>>
\* an empty subfolder followed by a sibling file
TreeEmpty ==
    <<Folder("R", <<2, 3>>), Folder("D", <<>>), File("a", MaxSize - 1)>>

\* the share is a single file of length 0
TreeZero ==
    <<File("z", 0)>>

Trees == {TreeNested, TreeDup, TreeFile, TreeEmpty, TreeZero}

\* three one-byte files in one folder: more files than the pool has threads
TreeThree ==
    <<Folder("R", <<2, 3, 4>>), File("a", 1), File("b", 1), File("c", 1)>>

\* ------------------------------------------------------------------- state
VARIABLES
    policy,           \* "seq" (Seq-V3.py) or "pool" (descargador.py)
    session,          \* how many times the program has been started
    url,              \* the share URL typed by the user
    pc,               \* where the session is
    id,               \* Main._id
    root_dir,         \* Main._root_dir
    cwd,              \* the process-wide current directory
    dirs,             \* directories that exist on disk
    stack,            \* call stack of _parseLinks
    files_link_list,  \* Main._files_link_list
    tree,             \* the remote tree served by the contents API
    net,              \* network calls made in this session, by kind
    structErr,        \* a token or contents call did not report "ok"
    script,           \* what the file host answers to the GET of each link
    final,            \* files on disk: path -> size
    part,             \* sidecars on disk: path -> size of <path>.part
    att,              \* per task: the locals of its _downloadContent call
    workers,          \* per worker thread: what it is doing
    nextTask,         \* index of the next item of the list to hand over
    reference,        \* the disk the sequential run left, kept for comparison
    submitted,        \* how many items the loop has given to the executor
    gui,              \* the window: its entries, its index and its threads
    appended,         \* per sidecar: bytes written to it since it was created
    leftover          \* per sidecar: its size when the last call on it ended

resolveVars == <<id, root_dir, cwd, dirs, stack, files_link_list>>
diskVars == <<final, part, appended, leftover>>
runVars == <<script, att, workers, nextTask, submitted>>

vars == <<policy, session, url, pc, id, root_dir, cwd, dirs, stack,
          files_link_list, tree, net, structErr, script, final, part, att,
          workers, nextTask, reference, appended, leftover, submitted, gui>>

\* ----------------------------------------------------------------- helpers
\* path.join(a, name)
Join(p, name) == Append(p, name)

\* chdir(path.pardir)
Parent(p) == SubSeq(p, 1, Len(p) - 1)

NoCalls == [token |-> 0, lookups |-> 0, gets |-> 0]

\* ------------------------------------------------------------ Main.__init__
\* die(): SystemExit ends the session's thread
Die == pc' = "died"

\* lines 46-52: the share id is the last segment, the marker the one before
ParseUrl ==
    /\ pc = "init"
    /\ IF UrlIndexError(url) \/ ~HasMarker(url)
       THEN /\ Die
            /\ UNCHANGED id
       ELSE /\ id' = ShareId(url)
            /\ pc' = "token"
    /\ UNCHANGED <<gui, reference, policy, session, url, root_dir, cwd, dirs,
                   stack, files_link_list, tree, net, structErr>>
    /\ UNCHANGED <<diskVars, runVars>>

\* _createDir: mkdir, an existing directory is not an error
CreateDir(d, name) == d \cup {Join(cwd, name)}

\* lines 59-70: root_dir, the token call, then mkdir and chdir into <id>
GetToken ==
    /\ pc = "token"
    /\ net' = [net EXCEPT !.token = @ + 1]
    /\ \E ok \in BOOLEAN :
        IF ok
        THEN /\ root_dir' = Join(cwd, id)
             /\ dirs' = CreateDir(dirs, id)
             /\ cwd' = Join(cwd, id)
             /\ files_link_list' = <<>>
             /\ stack' = <<[node |-> 1, phase |-> "call", i |-> 0]>>
             /\ pc' = "resolve"
             /\ UNCHANGED structErr
        ELSE /\ Die
             /\ structErr' = TRUE
             /\ UNCHANGED <<root_dir, dirs, cwd, files_link_list, stack>>
    /\ UNCHANGED <<gui, reference, policy, session, url, id, tree>>
    /\ UNCHANGED <<diskVars, runVars>>

\* ------------------------------------------------------------- _parseLinks
Top == stack[Len(stack)]
Pop == SubSeq(stack, 1, Len(stack) - 1)
SetTop(f) == [stack EXCEPT ![Len(stack)] = f]

\* _cacheLink: one task per file, at path.join(filepath, filename)
\* (variant: joined with the root directory instead of the current one)
CacheLinkMutant(list, filepath, filename, link) ==
    Append(list, [path |-> Join(root_dir, filename), filename |-> filename, link |-> link])
CacheLink(list, filepath, filename, link) ==
    Append(list, [path |-> Join(filepath, filename), filename |-> filename, link |-> link])

\* the call returned: to its caller's loop, or to Main.__init__ and run()
Return ==
    /\ stack' = Pop
    /\ pc' = IF Len(stack) = 1 THEN "ready" ELSE pc

\* lines 205-230 and 241-242: the contents lookup of one node, fatal unless
\* "ok"; a folder is created and entered, a file is cached
\* (variant: the status is not checked)
LookupDiesMutant(ok) == FALSE
LookupDies(ok) == ~ok

ParseLinksCall ==
    /\ pc = "resolve"
    /\ Top.phase = "call"
    /\ net' = [net EXCEPT !.lookups = @ + 1]
    /\ \E ok \in BOOLEAN :
        LET data == tree[Top.node] IN
        IF LookupDies(ok)
        THEN /\ Die
             /\ structErr' = TRUE
             /\ UNCHANGED <<cwd, dirs, stack, files_link_list>>
        ELSE /\ structErr' = (structErr \/ ~ok)
             /\ IF data.type = "folder"
                THEN /\ dirs' = CreateDir(dirs, data.name)
                     /\ cwd' = Join(cwd, data.name)
                     /\ stack' = SetTop([Top EXCEPT !.phase = "loop", !.i = 1])
                     /\ UNCHANGED <<pc, files_link_list>>
                ELSE /\ files_link_list' =
                            CacheLink(files_link_list, cwd, data.name, Top.node)
                     /\ Return
                     /\ UNCHANGED <<cwd, dirs>>
    /\ UNCHANGED <<gui, reference, policy, session, url, id, root_dir, tree>>
    /\ UNCHANGED <<diskVars, runVars>>

\* lines 232-238: the next child, in childrenIds order
ParseLinksChild ==
    /\ pc = "resolve"
    /\ Top.phase = "loop"
    /\ Top.i <= Len(tree[Top.node].childrenIds)
    /\ LET child_id == tree[Top.node].childrenIds[Top.i]
           child == tree[child_id]
           stepped == SetTop([Top EXCEPT !.i = @ + 1])
       IN IF child.type = "folder"
          THEN /\ stack' = Append(stepped, [node |-> child_id, phase |-> "call", i |-> 0])
               /\ UNCHANGED files_link_list
          ELSE /\ files_link_list' =
                      CacheLink(files_link_list, cwd, child.name, child_id)
               /\ stack' = stepped
    /\ UNCHANGED <<gui, reference, policy, session, url, pc, id, root_dir, cwd, dirs, tree,
                   net, structErr>>
    /\ UNCHANGED <<diskVars, runVars>>

\* line 240: chdir(path.pardir) and return
\* (variant: the call stays in the folder)
AscendMutant(d) == d
Ascend(d) == Parent(d)

ParseLinksReturn ==
    /\ pc = "resolve"
    /\ Top.phase = "loop"
    /\ Top.i > Len(tree[Top.node].childrenIds)
    /\ cwd' = Ascend(cwd)
    /\ Return
    /\ UNCHANGED <<gui, reference, policy, session, url, id, root_dir, dirs, files_link_list,
                   tree, net, structErr>>
    /\ UNCHANGED <<diskVars, runVars>>

\* ----------------------------------------------------------- the file host
Denied == {403, 404, 405, 500}
Statuses == {200, 206, 416} \cup Denied

\* chunks a full body of the largest file takes
MaxChunks == (MaxSize + ChunkSize - 1) \div ChunkSize

\* One answer to a file GET.  status 0: the connection failed and get()
\* raised.  hdr: the length header the code reads is present (Content-Length
\* on a 200, Content-Range on a 206); it announces the file's size on the
\* server.  chunks: how many chunks arrive before the connection breaks;
\* err: the break raises (otherwise the stream just ends short).
Responses ==
    {[status |-> s, hdr |-> FALSE, chunks |-> 0, err |-> FALSE] :
        s \in Statuses \cup {0}}
    \cup {[status |-> s, hdr |-> TRUE, chunks |-> c, err |-> e] :
        s \in {200, 206}, c \in 0..(MaxChunks - 1), e \in BOOLEAN}
    \cup {[status |-> s, hdr |-> TRUE, chunks |-> MaxChunks, err |-> FALSE] :
        s \in {200, 206}}

FileNodes(t) == {n \in DOMAIN t : t[n].type = "file"}

\* the answers drawn for the files of a share; for the share of three files
\* one answer of each kind: get() raised, a denial, a 200 without length, a
\* body broken before its first chunk (raising or not), a whole body
Answers(t) ==
    IF t = TreeThree
    THEN {r \in Responses : r.status \in {0, 200, 403} /\ r.chunks \in {0, MaxChunks}}
    ELSE Responses

\* --------------------------------------------------------------- the disk
NoFiles == [p \in {} |-> 0]
Exists(f, p) == p \in DOMAIN f
Put(f, p, v) == [q \in DOMAIN f \cup {p} |-> IF q = p THEN v ELSE f[q]]
Del(f, p) == [q \in DOMAIN f \ {p} |-> f[q]]
\* the size of p as a set: empty when p does not exist
SizeOf(f, p) == IF Exists(f, p) THEN {f[p]} ELSE {}

\* ----------------------------------------------------- start_downloads
\* one loop in Seq-V3.py, max_workers threads in descargador.py
\* (variant: the executor starts one thread too many)
WorkersMutant == IF policy = "seq" THEN {1} ELSE 1..(PoolSize + 1)
Workers == IF policy = "seq" THEN {1} ELSE 1..PoolSize

Tasks == DOMAIN files_link_list

\* the locals of one _downloadContent call; optional values are sets of at
\* most one element.  finalBefore, partBefore, moved record what the call
\* found and did, for the properties; progress is what it has emitted on
\* progress_signal, in order.
NewAttempt ==
    [pc |-> "new", part_size |-> 0, range |-> {}, has_size |-> {},
     status |-> 0, chunks |-> 0, received |-> 0, exc |-> FALSE,
     msgs |-> {}, fd |-> "closed", finalBefore |-> {}, partBefore |-> {},
     moved |-> FALSE, progress |-> <<>>]

Idle == [st |-> "idle", task |-> 0]

\* lines 72-76 (Seq-V3.py), 75-81 (descargador.py): chdir(root_dir), then
\* the items are handed over in list order
StartDownloads ==
    /\ pc = "ready"
    /\ pc' = "download"
    /\ cwd' = root_dir
    /\ script' \in [FileNodes(tree) -> Answers(tree)]
    /\ att' = [i \in Tasks |-> NewAttempt]
    /\ workers' = [w \in Workers |-> Idle]
    /\ nextTask' = 1
    /\ submitted' = 0
    /\ UNCHANGED <<gui, reference, policy, session, url, id, root_dir, dirs, stack,
                   files_link_list, tree, net, structErr, diskVars>>

\* ------------------------------------------------------- _downloadContent
PathOf(i) == files_link_list[i].path
LinkOf(i) == files_link_list[i].link
Ended(a) == a.pc \in {"returned", "raised"}

\* lines 108-109: the final file exists and is not empty
\* (variant: the sidecar is looked at instead)
AlreadyThereMutant(i) == Exists(part, PathOf(i))
AlreadyThere(i) == Exists(final, PathOf(i)) /\ final[PathOf(i)] > 0

\* lines 131-134: the resume offset, and the Range header whenever the
\* sidecar is a file (variant: the header is forgotten)
ProbeMutant(a, i) ==
    [a EXCEPT !.part_size = IF Exists(part, PathOf(i)) THEN part[PathOf(i)] ELSE 0]
Probe(a, i) ==
    [a EXCEPT !.part_size = IF Exists(part, PathOf(i)) THEN part[PathOf(i)] ELSE 0,
              !.range = SizeOf(part, PathOf(i))]

\* what the worker does once its call is over: the pool's thread keeps the
\* exception in the future and takes the next item; the loop of Seq-V3.py
\* sleeps after a normal return (variant: it does not sleep)
AfterMutant(w, raised) == [workers EXCEPT ![w] = Idle]
After(w, raised) ==
    IF policy = "seq"
    THEN [workers EXCEPT ![w] = [@ EXCEPT !.st = IF raised THEN "dead" ELSE "sleep"]]
    ELSE [workers EXCEPT ![w] = Idle]

\* an exception leaving _downloadContent leaves the loop, start_downloads
\* and run() of Seq-V3.py
Escapes(raised) == IF policy = "seq" /\ raised THEN "crashed" ELSE pc

\* lines 81-83 of descargador.py: the loop gives the next item of the list
\* to the executor, which queues it
Submit ==
    /\ pc = "download"
    /\ policy = "pool"
    /\ submitted < Len(files_link_list)
    /\ submitted' = submitted + 1
    /\ UNCHANGED <<gui, reference, policy, session, url, pc, tree, net, structErr,
                   script, att, workers, nextTask, resolveVars, diskVars>>

\* a worker takes the next item (the pool's threads take the queued items
\* first in, first out) and runs lines 107-137
DownloadBegin(w) ==
    /\ pc = "download"
    /\ workers[w].st = "idle"
    /\ nextTask \in Tasks
    /\ policy = "pool" => nextTask <= submitted
    /\ nextTask' = nextTask + 1
    /\ LET i == nextTask
           a == [att[i] EXCEPT !.finalBefore = SizeOf(final, PathOf(i)),
                               !.partBefore = SizeOf(part, PathOf(i))]
       IN IF AlreadyThere(i)
          THEN /\ att' = [att EXCEPT ![i] =
                            [a EXCEPT !.msgs = @ \cup {"skip"}, !.pc = "returned"]]
               /\ workers' = After(w, FALSE)
          ELSE /\ att' = [att EXCEPT ![i] = [Probe(a, i) EXCEPT !.pc = "request"]]
               /\ workers' = [workers EXCEPT ![w] = [st |-> "busy", task |-> i]]
    /\ UNCHANGED <<gui, submitted, reference, policy, session, url, pc, tree, net, structErr, script,
                   resolveVars, diskVars>>

\* lines 141-143: the statuses that end the attempt
\* (variant: only the denial statuses do)
RejectedMutant(part_size, status) == status \in Denied
Rejected(part_size, status) ==
    \/ status \in Denied
    \/ part_size = 0 /\ status # 200
    \/ part_size > 0 /\ status # 206

\* bytes the host still has to send from the offset asked for
ToDeliver(i) ==
    LET left == tree[LinkOf(i)].size - att[i].part_size
    IN IF left > 0 THEN left ELSE 0

\* line 165: open(filename, 'ab') creates the sidecar empty when it is not
\* there and keeps what it holds when it is (variant: mode 'wb' truncates)
OpenAppendMutant(f, p) == Put(f, p, 0)
OpenAppend(f, p) == IF Exists(f, p) THEN f ELSE Put(f, p, 0)

\* lines 140-165: the GET, the validation of the answer, the size lookup and
\* open(filename, 'ab')
DownloadRequest(w) ==
    /\ pc = "download"
    /\ workers[w].st = "busy"
    /\ LET i == workers[w].task
           a == att[i]
           r == script[LinkOf(i)]
           size == tree[LinkOf(i)].size
       IN /\ a.pc = "request"
          /\ net' = [net EXCEPT !.gets = @ + 1]
          /\ IF r.status = 0
             THEN \* get() raised
                  /\ att' = [att EXCEPT ![i] = [a EXCEPT !.exc = TRUE, !.pc = "finally"]]
                  /\ UNCHANGED <<part, appended>>
             ELSE IF Rejected(a.part_size, r.status)
             THEN /\ att' = [att EXCEPT ![i] =
                        [a EXCEPT !.status = r.status, !.msgs = @ \cup {"nodownload"},
                                  !.pc = "finally"]]
                  /\ UNCHANGED <<part, appended>>
             ELSE IF a.part_size > 0 /\ ~r.hdr
             THEN \* headers.get('Content-Range') is None: .split raises
                  /\ att' = [att EXCEPT ![i] =
                        [a EXCEPT !.status = r.status, !.exc = TRUE, !.pc = "finally"]]
                  /\ UNCHANGED <<part, appended>>
             ELSE IF ~r.hdr
             THEN /\ att' = [att EXCEPT ![i] =
                        [a EXCEPT !.status = r.status, !.msgs = @ \cup {"nosize"},
                                  !.pc = "finally"]]
                  /\ UNCHANGED <<part, appended>>
             ELSE /\ att' = [att EXCEPT ![i] =
                        [a EXCEPT !.status = r.status, !.has_size = {size},
                                  !.fd = "part", !.pc = "stream"]]
                  /\ part' = OpenAppend(part, PathOf(i))
                  /\ appended' = IF Exists(part, PathOf(i)) THEN appended
                                 ELSE Put(appended, PathOf(i), 0)
    /\ UNCHANGED <<gui, submitted, reference, policy, session, url, pc, tree, structErr, script, final,
                   leftover, workers, nextTask, resolveVars>>

\* lines 170 and 187: int((part_size + (i * len(chunk))) / total_size * 100),
\* i the zero-based index of the chunk and len(chunk) the length of the
\* chunk in hand; the quotient is exact enough at these sizes for int() to
\* be the floor of the fraction
Progress(part_size, i, len, total_size) ==
    ((part_size + (i * len)) * 100) \div total_size

\* lines 169-188: one chunk is appended through the open handle and its
\* progress is emitted.  The handle
\* follows the file it was opened on: after another call renamed that
\* sidecar, the bytes land in the renamed file (fd = "final"), or nowhere
\* visible once that file was itself replaced (fd = "gone").
DownloadChunk(w) ==
    /\ pc = "download"
    /\ workers[w].st = "busy"
    /\ LET i == workers[w].task
           a == att[i]
           r == script[LinkOf(i)]
           left == ToDeliver(i) - a.received
           n == IF left < ChunkSize THEN left ELSE ChunkSize
       IN /\ a.pc = "stream"
          /\ left > 0
          /\ a.chunks < r.chunks
          /\ att' = [att EXCEPT ![i] =
                [a EXCEPT !.chunks = @ + 1, !.received = @ + n,
                          !.progress = Append(@, Progress(a.part_size, a.chunks, n,
                                                          tree[LinkOf(i)].size))]]
          /\ part' = IF a.fd = "part"
                     THEN [part EXCEPT ![PathOf(i)] = @ + n] ELSE part
          /\ appended' = IF a.fd = "part"
                         THEN [appended EXCEPT ![PathOf(i)] = @ + n] ELSE appended
          /\ final' = IF a.fd = "final"
                      THEN [final EXCEPT ![PathOf(i)] = @ + n] ELSE final
    /\ UNCHANGED <<gui, submitted, reference, policy, session, url, pc, tree, net, structErr, script,
                   leftover, workers, nextTask, resolveVars>>

\* the loop over iter_content ends: the body is complete, or the connection
\* broke (raising or not); the with-blocks close the handle
StreamEnd(w) ==
    /\ pc = "download"
    /\ workers[w].st = "busy"
    /\ LET i == workers[w].task
           a == att[i]
           r == script[LinkOf(i)]
           short == a.received < ToDeliver(i)
       IN /\ a.pc = "stream"
          /\ ~short \/ a.chunks >= r.chunks
          /\ att' = [att EXCEPT ![i] =
                [a EXCEPT !.exc = short /\ r.err, !.fd = "closed", !.pc = "finally"]]
    /\ UNCHANGED <<gui, submitted, reference, policy, session, url, pc, tree, net, structErr, script,
                   workers, nextTask, resolveVars, diskVars>>

\* line 191: path.getsize(filename) raises when the sidecar is missing, then
\* int(has_size) raises when has_size is None
FinallyRaises(i) == ~Exists(part, PathOf(i)) \/ att[i].has_size = {}

\* line 191: path.getsize(filename) == int(has_size)
\* (variant: any sidecar is taken once a size is known)
SizeMatchMutant(i) == ~FinallyRaises(i)
SizeMatch(i) == ~FinallyRaises(i) /\ part[PathOf(i)] \in att[i].has_size

\* lines 190-194: the finally block; an exception raised in the try block,
\* or by the comparison itself, leaves the call once the block is over.
\* Line 192 (Seq-V3.py only) emits progress 100 before the move.
Finalize(w) ==
    /\ pc = "download"
    /\ workers[w].st = "busy"
    /\ LET i == workers[w].task
           a == att[i]
           p == PathOf(i)
           raised == FinallyRaises(i) \/ a.exc
           done == [a EXCEPT !.pc = IF raised THEN "raised" ELSE "returned",
                             !.moved = SizeMatch(i),
                             !.msgs = IF SizeMatch(i) THEN @ \cup {"done"} ELSE @,
                             !.progress = IF SizeMatch(i) /\ policy = "seq"
                                          THEN Append(@, 100) ELSE @]
       IN /\ a.pc = "finally"
          /\ IF SizeMatch(i)
             THEN \* move(filename, file_info["path"])
                  /\ final' = Put(final, p, part[p])
                  /\ part' = Del(part, p)
                  /\ att' = [j \in Tasks |->
                        IF j = i THEN done
                        ELSE IF PathOf(j) = p /\ att[j].fd = "part"
                        THEN [att[j] EXCEPT !.fd = "final"]
                        ELSE IF PathOf(j) = p /\ att[j].fd = "final"
                        THEN [att[j] EXCEPT !.fd = "gone"]
                        ELSE att[j]]
                  /\ leftover' = Del(leftover, p)
             ELSE /\ att' = [att EXCEPT ![i] = done]
                  /\ leftover' = IF Exists(part, p) THEN Put(leftover, p, part[p])
                                 ELSE Del(leftover, p)
                  /\ UNCHANGED <<final, part>>
          /\ workers' = After(w, raised)
          /\ pc' = Escapes(raised)
    /\ UNCHANGED <<gui, submitted, reference, policy, session, url, tree, net, structErr, script,
                   appended, nextTask, resolveVars>>

\* line 80 of Seq-V3.py: sleep(2) between downloads
SleepDone(w) ==
    /\ pc = "download"
    /\ workers[w].st = "sleep"
    /\ workers' = [workers EXCEPT ![w] = Idle]
    /\ UNCHANGED <<gui, submitted, reference, policy, session, url, pc, tree, net, structErr, script,
                   att, nextTask, resolveVars, diskVars>>

\* the loop is over (Seq-V3.py); every item was submitted and the with-block
\* has joined the executor's threads, the queue drained (descargador.py):
\* start_downloads returns
Finish ==
    /\ pc = "download"
    /\ policy = "pool" => submitted = Len(files_link_list)
    /\ nextTask \notin Tasks
    /\ \A w \in Workers : workers[w].st = "idle"
    /\ pc' = "finished"
    /\ UNCHANGED <<gui, reference, policy, session, url, tree, net, structErr, runVars,
                   resolveVars, diskVars>>

\* the program is started again on the same URL and download directory:
\* nothing but the disk survives
SessionOver == pc \in {"finished", "died", "crashed"}

Restart ==
    /\ SessionOver
    /\ session < MaxSessions
    /\ session' = session + 1
    /\ pc' = "init"
    /\ id' = <<>>
    /\ root_dir' = <<>>
    /\ cwd' = <<>>
    /\ stack' = <<>>
    /\ files_link_list' = <<>>
    /\ net' = NoCalls
    /\ structErr' = FALSE
    /\ script' = NoFiles
    /\ att' = <<>>
    /\ workers' = <<>>
    /\ nextTask' = 1
    /\ submitted' = 0
    /\ UNCHANGED <<gui, reference, policy, url, tree, dirs, diskVars>>

\* ---------------------------------------------------------- specifications
\* DownloadApp.__init__: the window opens with one entry, no thread, and
\* (Seq-V3.py) no current_download_index yet
Window ==
    [entries |-> 1, index |-> {}, threads |-> <<>>, pending |-> 0,
     presses |-> 0, alive |-> TRUE]

Fresh ==
    /\ session = 1
    /\ pc = "init"
    /\ id = <<>>
    /\ root_dir = <<>>
    /\ cwd = <<>>
    /\ dirs = {}
    /\ stack = <<>>
    /\ files_link_list = <<>>
    /\ net = NoCalls
    /\ structErr = FALSE
    /\ script = NoFiles
    /\ final = NoFiles
    /\ part = NoFiles
    /\ appended = NoFiles
    /\ leftover = NoFiles
    /\ att = <<>>
    /\ workers = <<>>
    /\ nextTask = 1
    /\ submitted = 0
    /\ gui = Window
    /\ reference = {}

\* a well-formed share URL and one without the marker segment
SessionUrls == {<<"d", "/", "x">>, <<"x", "/", "x">>}

Init ==
    /\ policy \in {"seq", "pool"}
    /\ url \in SessionUrls
    /\ tree \in Trees
    /\ Fresh

Next ==
    \/ ParseUrl
    \/ GetToken
    \/ ParseLinksCall
    \/ ParseLinksChild
    \/ ParseLinksReturn
    \/ StartDownloads
    \/ Submit
    \/ \E w \in Workers : DownloadBegin(w)
    \/ \E w \in Workers : DownloadRequest(w)
    \/ \E w \in Workers : DownloadChunk(w)
    \/ \E w \in Workers : StreamEnd(w)
    \/ \E w \in Workers : Finalize(w)
    \/ \E w \in Workers : SleepDone(w)
    \/ Finish
    \/ Restart

Spec == Init /\ [][Next]_vars

\* The same task list, against the same answers of the file host and from
\* the same disk, under both policies: once the loop of Seq-V3.py is over
\* (or was left by an exception) its disk is set aside and the pool of
\* descargador.py is started on the list with the disk as it was.
CompareRun ==
    /\ policy = "seq"
    /\ pc \in {"finished", "crashed"}
    /\ reference = {}
    /\ reference' = {[final |-> final, part |-> part]}
    /\ policy' = "pool"
    /\ pc' = "download"
    /\ final' = NoFiles
    /\ part' = NoFiles
    /\ appended' = NoFiles
    /\ leftover' = NoFiles
    /\ att' = [i \in Tasks |-> NewAttempt]
    /\ workers' = [w \in 1..PoolSize |-> Idle]
    /\ nextTask' = 1
    /\ submitted' = 0
    /\ UNCHANGED <<gui, session, url, tree, net, structErr, script, resolveVars>>

InitEq ==
    /\ policy = "seq"
    /\ url = <<"d", "/", "x">>
    /\ tree \in Trees
    /\ Fresh

NextEq ==
    \/ ParseUrl
    \/ GetToken
    \/ ParseLinksCall
    \/ ParseLinksChild
    \/ ParseLinksReturn
    \/ StartDownloads
    \/ Submit
    \/ \E w \in Workers : DownloadBegin(w)
    \/ \E w \in Workers : DownloadRequest(w)
    \/ \E w \in Workers : DownloadChunk(w)
    \/ \E w \in Workers : StreamEnd(w)
    \/ \E w \in Workers : Finalize(w)
    \/ \E w \in Workers : SleepDone(w)
    \/ Finish
    \/ CompareRun

SpecEq == InitEq /\ [][NextEq]_vars

\* every URL up to MaxUrlLen characters, up to the token call
InitUrl ==
    /\ policy \in {"seq", "pool"}
    /\ url \in Urls
    /\ tree = TreeFile
    /\ Fresh

NextUrl ==
    \/ ParseUrl
    \/ GetToken

SpecUrl == InitUrl /\ [][NextUrl]_vars

\* The program is started on the same URL and download directory again and
\* again, without a limit: as Restart, the runs are not counted.
Reinvoke ==
    /\ SessionOver
    /\ pc' = "init"
    /\ id' = <<>>
    /\ root_dir' = <<>>
    /\ cwd' = <<>>
    /\ stack' = <<>>
    /\ files_link_list' = <<>>
    /\ net' = NoCalls
    /\ structErr' = FALSE
    /\ script' = NoFiles
    /\ att' = <<>>
    /\ workers' = <<>>
    /\ nextTask' = 1
    /\ submitted' = 0
    /\ UNCHANGED <<gui, reference, policy, session, url, tree, dirs, diskVars>>

\* shares whose files all have their own path
InitRetry ==
    /\ policy \in {"seq", "pool"}
    /\ url = <<"d", "/", "x">>
    /\ tree \in {TreeNested, TreeFile, TreeEmpty}
    /\ Fresh

NextRetry ==
    \/ ParseUrl
    \/ GetToken
    \/ ParseLinksCall
    \/ ParseLinksChild
    \/ ParseLinksReturn
    \/ StartDownloads
    \/ Submit
    \/ \E w \in Workers : DownloadBegin(w)
    \/ \E w \in Workers : DownloadRequest(w)
    \/ \E w \in Workers : DownloadChunk(w)
    \/ \E w \in Workers : StreamEnd(w)
    \/ \E w \in Workers : Finalize(w)
    \/ \E w \in Workers : SleepDone(w)
    \/ Finish
    \/ Reinvoke

\* every call, loop and thread of a run goes on until it is over, and the
\* program is started again after each run
SpecRetry == InitRetry /\ [][NextRetry]_vars /\ WF_vars(NextRetry)

\* descargador.py alone, on a share with more files than threads: the
\* session's thread and the executor's threads all go on until they are over
InitPool ==
    /\ policy = "pool"
    /\ url = <<"d", "/", "x">>
    /\ tree = TreeThree
    /\ Fresh

NextPool ==
    \/ ParseUrl
    \/ GetToken
    \/ ParseLinksCall
    \/ ParseLinksChild
    \/ ParseLinksReturn
    \/ StartDownloads
    \/ Submit
    \/ \E w \in Workers : DownloadBegin(w)
    \/ \E w \in Workers : DownloadRequest(w)
    \/ \E w \in Workers : DownloadChunk(w)
    \/ \E w \in Workers : StreamEnd(w)
    \/ \E w \in Workers : Finalize(w)
    \/ Finish

SpecPool == InitPool /\ [][NextPool]_vars /\ WF_vars(NextPool)

\* ------------------------------------------------------------ the window
\* Each DownloadThread is followed through Main.__init__ ("init": token,
\* resolution, chdir), start_downloads ("download") and its end; what the
\* engine does inside these stages is what the specifications above model.
engineVars ==
    <<policy, session, url, pc, id, root_dir, cwd, dirs, stack, files_link_list,
      tree, net, structErr, script, final, part, att, workers, nextTask,
      reference, appended, leftover, submitted>>

Running(g) == {t \in DOMAIN g.threads : g.threads[t].st \in {"init", "download"}}

\* 'New download' (Seq-V3.py): one more entry in the container
AddDownloadUi ==
    /\ gui.alive
    /\ policy = "seq"
    /\ gui.entries < MaxEntries
    /\ gui' = [gui EXCEPT !.entries = @ + 1]
    /\ UNCHANGED engineVars

\* start_download: a new DownloadThread for the entry is created and started
StartDownload(g, entry) ==
    [g EXCEPT !.threads = Append(@, [entry |-> entry, st |-> "init"])]

\* start_next_download: the entry at current_download_index, if there is one
StartNextDownload(g) ==
    LET index == CHOOSE i \in g.index : TRUE
    IN IF index < g.entries THEN StartDownload(g, index) ELSE g

\* 'Download': start_all_downloads puts the index back to 0 and starts that
\* entry (Seq-V3.py); start_download starts a thread (descargador.py)
PressDownload ==
    /\ gui.alive
    /\ gui.presses < MaxPresses
    /\ LET g == [gui EXCEPT !.presses = @ + 1]
       IN gui' = IF policy = "seq"
                 THEN StartNextDownload([g EXCEPT !.index = {0}])
                 ELSE StartDownload(g, 0)
    /\ UNCHANGED engineVars

\* A thread whose run() is left by SystemExit or another exception emits
\* nothing; whether only the thread ends or the interpreter takes the whole
\* process down with it depends on the binding, so both are possible.
EndsAbnormally(g, t, how, processDies) ==
    IF processDies
    THEN [g EXCEPT !.alive = FALSE, !.threads[t].st = how]
    ELSE [g EXCEPT !.threads[t].st = how]

\* Main.__init__ in run(): the session resolves its share, or die() ends it
ThreadInit(t) ==
    /\ gui.alive
    /\ gui.threads[t].st = "init"
    /\ \E ok, processDies \in BOOLEAN :
        gui' = IF ok THEN [gui EXCEPT !.threads[t].st = "download"]
               ELSE EndsAbnormally(gui, t, "died", processDies)
    /\ UNCHANGED engineVars

\* start_downloads in run(): it returns, and Seq-V3.py emits finished_signal
\* (queued for the window's thread); or an exception leaves the loop of
\* Seq-V3.py (the pool of descargador.py keeps it in the future)
ThreadRun(t) ==
    /\ gui.alive
    /\ gui.threads[t].st = "download"
    /\ \E ok, processDies \in BOOLEAN :
        gui' = IF ok \/ policy = "pool"
               THEN [gui EXCEPT !.threads[t].st = "finished",
                                !.pending = IF policy = "seq" THEN @ + 1 ELSE @]
               ELSE EndsAbnormally(gui, t, "crashed", processDies)
    /\ UNCHANGED engineVars

\* on_download_finished: the index moves on and the next entry is started
OnDownloadFinished ==
    /\ gui.alive
    /\ gui.pending > 0
    /\ LET index == CHOOSE i \in gui.index : TRUE
       IN gui' = StartNextDownload([gui EXCEPT !.pending = @ - 1,
                                                !.index = {index + 1}])
    /\ UNCHANGED engineVars

\* what goes on without the user: the threads and the queued slot
SystemGui ==
    \/ \E t \in DOMAIN gui.threads : ThreadInit(t)
    \/ \E t \in DOMAIN gui.threads : ThreadRun(t)
    \/ OnDownloadFinished

InitGui ==
    /\ policy \in {"seq", "pool"}
    /\ url = <<"d", "/", "x">>
    /\ tree = TreeFile
    /\ Fresh

NextGui ==
    \/ AddDownloadUi
    \/ PressDownload
    \/ \E t \in DOMAIN gui.threads : ThreadInit(t)
    \/ \E t \in DOMAIN gui.threads : ThreadRun(t)
    \/ OnDownloadFinished

\* the threads run on and queued signals are delivered; the user may stop
\* pressing buttons at any time
SpecGui == InitGui /\ [][NextGui]_vars /\ WF_vars(SystemGui)

\* -------------------------------------------------------------- properties
Attempts == DOMAIN att

\* no other task of the list has task i's local path
Unshared(i) == \A j \in Tasks \ {i} : PathOf(j) # PathOf(i)

\* task i's paths are on disk as its call found them
DiskAsFound(i) ==
    /\ SizeOf(final, PathOf(i)) = att[i].finalBefore
    /\ SizeOf(part, PathOf(i)) = att[i].partBefore

\* C1: under both policies, a task whose GET is answered 403, 404 or 405
\* leaves its sidecar at its size and creates no final file, and every later
\* task of the list is still attempted in the same run.
C1_DenialKeepsRunGoing ==
    \A i \in Attempts :
        (att[i].status \in {403, 404, 405} /\ Ended(att[i])) =>
            /\ att[i].received = 0
            /\ ~att[i].moved
            /\ Unshared(i) => DiskAsFound(i)
            /\ SessionOver => \A j \in Attempts : j > i => att[j].pc # "new"

\* the host answered task i's GET (get() itself did not raise)
Answered(i) == att[i].status # 0

\* C2: no exception escapes a download attempt: whatever the outcome of the
\* request (rejected status, missing size, stream interrupted or complete),
\* _downloadContent runs its finally block and returns normally.
C2_NoExceptionEscapes ==
    \A i \in Attempts : Answered(i) => att[i].pc # "raised"

\* C3: in one run every task of the resolved list is handed to the
\* downloader exactly once, whatever the outcome of the tasks before it.
C3_EveryTaskAttempted ==
    /\ Cardinality({i \in Attempts : att[i].pc # "new"}) = nextTask - 1
    /\ \A v, w \in DOMAIN workers :
        (v # w /\ workers[v].st = "busy" /\ workers[w].st = "busy") =>
            workers[v].task # workers[w].task
    /\ (pc \in {"finished", "crashed"}
            /\ \A i \in Attempts : Ended(att[i]) => (Answered(i) \/ "skip" \in att[i].msgs)) =>
        \A i \in Attempts : att[i].pc # "new"

\* C4: with a sidecar of size S, 0 < S < totalSize, and no final file, the
\* request carries Range: bytes=S-, and when the host answers 206 with the
\* total in Content-Range and delivers the remaining totalSize - S bytes the
\* attempt ends with a final file of totalSize bytes and no sidecar.
ResumeCase(i) ==
    /\ att[i].pc # "new"
    /\ att[i].finalBefore = {}
    /\ \E S \in 1..(tree[LinkOf(i)].size - 1) : att[i].partBefore = {S}
    /\ policy = "seq" \/ Unshared(i)

ResumeServed(i) ==
    /\ Ended(att[i])
    /\ att[i].status = 206
    /\ att[i].has_size = {tree[LinkOf(i)].size}
    /\ att[i].received = tree[LinkOf(i)].size - att[i].part_size

C4_ResumeCompletes ==
    \A i \in Attempts :
        ResumeCase(i) =>
            /\ att[i].range = att[i].partBefore
            /\ ResumeServed(i) =>
                /\ att[i].pc = "returned"
                /\ SizeOf(final, PathOf(i)) = {tree[LinkOf(i)].size}
                /\ ~Exists(part, PathOf(i))

C4_Witness ==
    \E i \in Attempts :
        /\ ResumeCase(i)
        /\ ResumeServed(i)
        /\ Unshared(i)
        /\ att[i].received > 0

\* C5: when the final path exists with size > 0 at the call, the attempt
\* makes no network request, emits the skip message and leaves the final
\* file and the sidecar as they are.
SkipCase(i) ==
    /\ att[i].pc # "new"
    /\ \E n \in 1..MaxSize : att[i].finalBefore = {n}

\* the calls that got as far as their GET
Requested == {i \in Attempts : att[i].pc \notin {"new", "request"} /\ "skip" \notin att[i].msgs}

C5_SkipExisting ==
    /\ net.gets = Cardinality(Requested)
    /\ \A i \in Attempts :
        SkipCase(i) =>
            /\ att[i].pc = "returned"
            /\ att[i].msgs = {"skip"}
            /\ att[i].range = {} /\ att[i].received = 0 /\ ~att[i].moved
            /\ (policy = "seq" \/ Unshared(i)) => DiskAsFound(i)

C5_Witness ==
    \E i \in Attempts :
        /\ SkipCase(i)
        /\ Unshared(i)
        /\ att[i].msgs = {"skip"}
        /\ pc = "finished"
        /\ net.gets = 0

\* C6: for a list of tasks with distinct paths, the worker pool ends with the
\* same final files and the same leftover sidecars as the sequential loop run
\* on the same list against the same answers.
C6_PoolMatchesSequential ==
    (/\ reference # {}
     /\ pc = "finished"
     /\ \A i \in Tasks : Unshared(i)
     /\ \A n \in DOMAIN script : script[n].status # 0) =>
        reference = {[final |-> final, part |-> part]}

\* C7: no two tasks of a resolved list have the same local path, so no two
\* workers are ever inside _downloadContent on the same path at once.
C7_NoSharedPath ==
    /\ \A i, j \in Tasks : i # j => PathOf(i) # PathOf(j)
    /\ \A v, w \in DOMAIN workers :
        (v # w /\ workers[v].st = "busy" /\ workers[w].st = "busy") =>
            PathOf(workers[v].task) # PathOf(workers[w].task)

\* the walk the resolver is meant to do, written from the tree alone
RECURSIVE Walk(_, _)
Walk(t, ns) ==
    IF ns = <<>> THEN <<>>
    ELSE (IF t[Head(ns)].type = "file" THEN <<Head(ns)>>
          ELSE Walk(t, t[Head(ns)].childrenIds)) \o Walk(t, Tail(ns))

DepthFirst(t) == Walk(t, <<1>>)

ParentOf(t, n) ==
    CHOOSE m \in DOMAIN t : \E k \in DOMAIN t[m].childrenIds : t[m].childrenIds[k] = n

RECURSIVE AncestorNames(_, _)
AncestorNames(t, n) ==
    IF n = 1 THEN <<>>
    ELSE AncestorNames(t, ParentOf(t, n)) \o <<t[ParentOf(t, n)].name>>

Resolved == pc \in {"ready", "download", "finished", "crashed"}

Links == [k \in DOMAIN files_link_list |-> files_link_list[k].link]

\* C8: the task list is the depth-first walk in childrenIds order ([F1,
\* D1/F2] for [F1, D1 -> [F2]]); each local path is the root directory, the
\* names of the file's ancestor folders and the file's name; and the
\* directory of every task exists on disk once the task is in the list.
C8_DepthFirstOrder ==
    /\ Len(Links) <= Len(DepthFirst(tree))
    /\ Links = SubSeq(DepthFirst(tree), 1, Len(Links))
    /\ Resolved => Links = DepthFirst(tree)
    /\ \A k \in DOMAIN files_link_list :
        LET n == files_link_list[k].link IN
        /\ files_link_list[k].filename = tree[n].name
        /\ files_link_list[k].path =
                root_dir \o AncestorNames(tree, n) \o <<tree[n].name>>
        /\ Parent(files_link_list[k].path) \in dirs
    /\ (Resolved /\ tree = TreeNested) =>
        /\ root_dir = <<id>>
        /\ files_link_list =
            << [path |-> <<id, "R", "a">>, filename |-> "a", link |-> 2],
               [path |-> <<id, "R", "D", "b">>, filename |-> "b", link |-> 4] >>

C8_Witness ==
    /\ tree = TreeNested
    /\ pc = "ready"
    /\ Len(files_link_list) = 2
    /\ <<id, "R", "D">> \in dirs

\* the segments of a URL, read off the positions of its slashes
Slashes(u) == {k \in 1..Len(u) : u[k] = "/"}
Last(S) == CHOOSE k \in S : \A m \in S : m <= k
LastSegment(u) ==
    IF Slashes(u) = {} THEN u ELSE SubSeq(u, Last(Slashes(u)) + 1, Len(u))
SecondToLastSegment(u) ==
    LET l == Last(Slashes(u))
        before == Slashes(u) \ {l}
    IN SubSeq(u, (IF before = {} THEN 0 ELSE Last(before)) + 1, l - 1)
MarkerShape(u) == Slashes(u) # {} /\ SecondToLastSegment(u) = <<"d">>

\* C9: when the second-to-last segment of the URL is 'd' the share id is
\* exactly the last segment; every other URL ends the session before the
\* token request or any other network call.
C9_UrlParsing ==
    pc # "init" =>
        IF MarkerShape(url)
        THEN /\ id = LastSegment(url)
             /\ pc = "token" \/ net.token = 1
        ELSE /\ pc = "died"
             /\ net = NoCalls

\* a trailing slash after the id: rejected without a network call
C9_Witness ==
    /\ url = <<"d", "/", "x", "/">>
    /\ pc = "died"
    /\ net = NoCalls

\* C10: the token comes first, then the whole tree, then the downloads; once
\* the token call or a contents lookup at any depth has not reported "ok",
\* the session is over and no file GET is issued in it.
C10_StructuralErrorsEndSession ==
    /\ structErr => (pc = "died" /\ net.gets = 0)
    /\ net.lookups > 0 => net.token = 1
    /\ net.gets > 0 => (stack = <<>> /\ pc \in {"download", "finished", "crashed"})

\* a lookup below the root failed after a file had been put on the list
C10_Witness ==
    /\ structErr
    /\ net.lookups = 2
    /\ Len(files_link_list) = 1
    /\ pc = "died"

\* task i is inside its call, past the probe
Active(i) == att[i].pc \in {"request", "stream", "finally"}

\* C11: over the attempts on one task, each attempt resumes at the size the
\* previous attempt left the sidecar with (0 when it left none), the sidecar
\* only grows by what is appended and never exceeds totalSize, and when an
\* attempt finalizes, the bytes appended over all attempts sum to totalSize.
C11_ResumedAttemptsAddUp ==
    \A i \in Attempts :
        (att[i].pc # "new" /\ Unshared(i)) =>
            LET p == PathOf(i)
                totalSize == tree[LinkOf(i)].size
            IN /\ Active(i) =>
                    att[i].part_size = (IF Exists(leftover, p) THEN leftover[p] ELSE 0)
               /\ Exists(part, p) =>
                    /\ part[p] <= totalSize
                    /\ part[p] = appended[p]
               /\ att[i].fd = "part" => part[p] = att[i].part_size + att[i].received
               /\ att[i].moved =>
                    /\ appended[p] = totalSize
                    /\ SizeOf(final, p) = {totalSize}
                    /\ att[i].part_size + att[i].received = totalSize

\* an attempt was interrupted after some bytes, a later one resumed there,
\* received the rest and finalized
C11_Witness ==
    \E i \in Attempts :
        /\ Unshared(i)
        /\ session > 1
        /\ att[i].part_size > 0
        /\ att[i].received > 0
        /\ att[i].moved
        /\ appended[PathOf(i)] = att[i].part_size + att[i].received

\* C12: once an attempt has renamed the sidecar to the final path, a further
\* call for the task takes the skip path: no request, the final file as it
\* was, no sidecar created; for every size the host can announce, 0 included.
C12_FinalizeIdempotent ==
    \A i \in Attempts :
        (att[i].pc # "new" /\ att[i].finalBefore # {}) =>
            /\ att[i].pc = "returned"
            /\ att[i].msgs = {"skip"}
            /\ att[i].range = {} /\ att[i].received = 0 /\ ~att[i].moved
            /\ (policy = "seq" \/ Unshared(i)) => DiskAsFound(i)

\* the host's answer to task i's GET passed the validation of lines 141-143
Accepted(i) == Answered(i) /\ ~Rejected(att[i].part_size, att[i].status)

\* the answer to task i's GET carried no length header
NoLength(i) == ~script[LinkOf(i)].hdr

\* C13: an accepted answer without a usable length (no Content-Length with
\* S = 0, no Content-Range with S > 0) makes the attempt emit the "Couldn't
\* find the file size" message, write nothing to the sidecar and create no
\* final file (stated for the tasks whose path no other task has).
C13_MissingSizeReported ==
    \A i \in Attempts :
        (Ended(att[i]) /\ Accepted(i) /\ NoLength(i) /\ Unshared(i)) =>
            /\ "nosize" \in att[i].msgs
            /\ att[i].received = 0
            /\ ~att[i].moved
            /\ DiskAsFound(i)

\* C14: the request carries Range: bytes=S- exactly when the resume offset S
\* is positive, whatever the state of the sidecar (absent, empty, of size
\* S > 0), so that the status expected by the validation (200 for S = 0, 206
\* for S > 0) goes with whether a range was asked for.
C14_RangeIffPositiveOffset ==
    \A i \in Attempts :
        (att[i].pc # "new" /\ "skip" \notin att[i].msgs /\ Unshared(i)) =>
            /\ att[i].range # {} <=> att[i].part_size > 0
            /\ att[i].range \subseteq {att[i].part_size}

\* the file host honours range requests: a GET without Range is answered 200
\* with Content-Length, a GET with Range 206 with Content-Range
HonoursRange ==
    \A i \in Attempts :
        (att[i].pc \notin {"new", "request"} /\ "skip" \notin att[i].msgs) =>
            /\ script[LinkOf(i)].status = (IF att[i].range = {} THEN 200 ELSE 206)
            /\ script[LinkOf(i)].hdr

\* a run is over in which the file host was ready to send every file whole
DeliveredRun ==
    /\ pc \in {"finished", "crashed"}
    /\ \A n \in DOMAIN script : script[n].chunks = MaxChunks

\* every file of the share is at its final path and no sidecar is left
AllComplete ==
    /\ Cardinality(DOMAIN final) = Cardinality(FileNodes(tree))
    /\ part = NoFiles

\* C15: from every sidecar state an interrupted attempt can leave (an empty
\* sidecar created before the first chunk included), re-invoking the download
\* against a host that honours range requests and again and again is ready to
\* deliver the remaining bytes eventually ends with every final file present
\* and no sidecar.
C15_ReinvocationCompletes ==
    ([]HonoursRange /\ []<>DeliveredRun) => <>AllComplete

\* what task i's sidecar holds when its call is over: what the probe found
\* and what the call received
SidecarAtEnd(i) == att[i].part_size + att[i].received

\* task i's call had a sidecar: it found one, or open() created it
HadSidecar(i) == att[i].partBefore # {} \/ att[i].has_size # {}

\* the sidecar holds exactly the total the host announced to task i's call
ExactMatch(i) == SidecarAtEnd(i) \in att[i].has_size

\* C16: at the end of every attempt the sidecar is moved to the final path
\* and "Done!" is emitted if and only if the sidecar's size equals the total
\* size announced by the host; otherwise the sidecar stays with all the bytes
\* received so far, the attempt creates no final file and emits no "Done!".
C16_RenameOnlyOnExactMatch ==
    \A i \in Attempts :
        (Ended(att[i]) /\ "skip" \notin att[i].msgs /\ Unshared(i)) =>
            LET p == PathOf(i) IN
            /\ att[i].moved <=> ExactMatch(i)
            /\ "done" \in att[i].msgs <=> ExactMatch(i)
            /\ IF ExactMatch(i)
               THEN /\ SizeOf(final, p) = att[i].has_size
                    /\ ~Exists(part, p)
               ELSE /\ SizeOf(final, p) = att[i].finalBefore
                    /\ SizeOf(part, p) =
                            (IF HadSidecar(i) THEN {SidecarAtEnd(i)} ELSE {})

\* in one run a transfer was completed and renamed, and another was cut short
\* after some bytes and left its sidecar
C16_Witness ==
    \E i, j \in Attempts :
        /\ Unshared(i) /\ Unshared(j)
        /\ Ended(att[i]) /\ ExactMatch(i) /\ att[i].received > 0
        /\ Ended(att[j]) /\ att[j].has_size # {} /\ ~ExactMatch(j)
        /\ att[j].received > 0
        /\ Exists(part, PathOf(j))

\* task i's call was ended by an exception of line 191 itself: nothing had
\* been raised in the try block, the comparison was evaluated and raised
ComparisonRaised(i) == att[i].pc = "raised" /\ ~att[i].exc

\* C17: the size comparison of the finally block is reached only by attempts
\* whose request stage obtained a total size: after a rejected status, a
\* missing length header or a failed request, it is not evaluated.
C17_FinalizeNeedsSize ==
    \A i \in Attempts : att[i].has_size = {} => ~ComparisonRaised(i)

\* the status that goes with the resume offset: 200 for S = 0, 206 for S > 0
ExpectedStatus(i) ==
    \/ att[i].part_size = 0 /\ att[i].status = 200
    \/ att[i].part_size > 0 /\ att[i].status = 206

\* C18: bytes are appended to the sidecar only when (S = 0 and status = 200)
\* or (S > 0 and status = 206); for every other combination of offset and
\* status the attempt emits "Couldn't download the file" and appends
\* nothing.
C18_ValidationGatesStreaming ==
    \A i \in Attempts :
        Answered(i) =>
            IF ExpectedStatus(i)
            THEN "nodownload" \notin att[i].msgs
            ELSE /\ "nodownload" \in att[i].msgs
                 /\ att[i].received = 0
                 /\ att[i].has_size = {}
                 /\ att[i].fd = "closed"
                 /\ Unshared(i) => DiskAsFound(i)

\* a resumed request answered 200 and a fresh one answered 206, both turned
\* down
C18_Witness ==
    \E i, j \in Attempts :
        /\ att[i].part_size > 0 /\ att[i].status = 200
        /\ att[j].part_size = 0 /\ att[j].status = 206
        /\ Ended(att[i]) /\ Ended(att[j])
        /\ Unshared(i) /\ Unshared(j)
        /\ "nodownload" \in (att[i].msgs \cap att[j].msgs)

\* bytes of task i's attempt received once its k-th chunk is written
ReceivedAfter(i, k) ==
    IF k * ChunkSize < ToDeliver(i) THEN k * ChunkSize ELSE ToDeliver(i)

\* (S + bytes received so far) * 100 / totalSize, as the integer emitted
PercentAfter(i, k) ==
    ((att[i].part_size + ReceivedAfter(i, k)) * 100) \div tree[LinkOf(i)].size

\* C19: after each chunk the emitted percentage is (S + bytes received so far
\* in this attempt, the chunk just written included) * 100 / totalSize, a
\* final chunk shorter than chunkSize included; so the values of one attempt
\* never decrease, stay within 0..100 and reach 100 with the last byte.
C19_ProgressPerChunk ==
    \A i \in Attempts :
        /\ \A k \in 1..att[i].chunks :
            /\ att[i].progress[k] = PercentAfter(i, k)
            /\ att[i].progress[k] \in 0..100
            /\ k > 1 => att[i].progress[k - 1] <= att[i].progress[k]
        /\ (att[i].chunks > 0 /\ att[i].received = ToDeliver(i)) =>
                att[i].progress[att[i].chunks] = 100

\* the loop of Seq-V3.py is running, or is over
SeqRun == policy = "seq" /\ pc \in {"download", "finished", "crashed"}

\* the tasks begun are a prefix of the list, each begun only once all the
\* tasks before it were over, so at most one call is active
OneAtATime ==
    SeqRun =>
        /\ \A i \in Attempts : att[i].pc # "new" <=> i < nextTask
        /\ \A i, j \in Attempts : (j < i /\ att[i].pc # "new") => Ended(att[j])
        /\ Cardinality({i \in Attempts : Active(i)}) <= 1

\* one step of the loop: a call that ends is followed by the sleep (or by the
\* end of the loop); no call begins during the sleep; a call begins only with
\* the sleep over and the call before it returned
DelayBetween ==
    (policy = "seq" /\ pc = "download" /\ pc' \in {"download", "crashed"}) =>
        /\ \A i \in Attempts :
            (~Ended(att[i]) /\ Ended(att'[i])) =>
                workers'[1].st = (IF att'[i].pc = "returned" THEN "sleep" ELSE "dead")
        /\ workers[1].st = "sleep" => att' = att /\ nextTask' = nextTask
        /\ \A i \in Attempts :
            (att[i].pc = "new" /\ att'[i].pc # "new") =>
                /\ workers[1].st = "idle"
                /\ i > 1 => att[i - 1].pc = "returned"

\* C20: under the sequential policy at most one download attempt is active at
\* any time, the tasks are attempted in list order, and the request for task
\* i+1 is issued only after the attempt for task i has ended and the delay
\* between tasks has elapsed.
C20_SequentialOneAtATime == []OneAtATime /\ [][DelayBetween]_vars

\* the second task's call is over, after the first one's and the delay
C20_Witness ==
    /\ policy = "seq"
    /\ pc = "download"
    /\ Len(files_link_list) = 2
    /\ att[1].pc = "returned" /\ att[2].pc = "returned"
    /\ net.gets = 2
    /\ workers[1].st = "sleep"

\* the pool of descargador.py is running, or start_downloads has returned
PoolRun == policy = "pool" /\ pc \in {"download", "finished"}

\* at most PoolSize calls are active; the tasks begun are the first ones of
\* the list and were all submitted; start_downloads returns only with every
\* task submitted and its call over
PoolBounded ==
    PoolRun =>
        /\ Cardinality({i \in Attempts : Active(i)}) <= PoolSize
        /\ \A i \in Attempts : att[i].pc # "new" <=> i < nextTask
        /\ nextTask - 1 <= submitted
        /\ submitted <= Len(files_link_list)
        /\ pc = "finished" =>
            /\ submitted = Len(files_link_list)
            /\ \A i \in Attempts : Ended(att[i])

\* C21: with a pool of K threads at most K download attempts are active at
\* any time, the tasks are submitted and started in list order, every
\* submitted task is eventually executed whatever became of the tasks before
\* it, and start_downloads returns only after every task's attempt has ended.
C21_PoolBoundedAndDrained ==
    /\ []PoolBounded
    /\ (pc = "download") ~> (pc = "finished" /\ \A i \in Attempts : Ended(att[i]))

\* the pool is full and the third item waits in the executor's queue
C21_Witness ==
    /\ pc = "download"
    /\ policy = "pool"
    /\ Len(files_link_list) = PoolSize + 1
    /\ \A i \in 1..PoolSize : Active(i)
    /\ submitted = PoolSize + 1
    /\ att[PoolSize + 1].pc = "new"

\* the directory the _parseLinks call on node n starts in, from the tree
\* alone: the root directory and the names of n's ancestor folders
CallCwd(n) == root_dir \o AncestorNames(tree, n)

\* while the tree is resolved the current directory is the one the innermost
\* call started in, or the folder that call has entered; once it is resolved
\* the current directory is the root directory and every file of the list
\* lies in the folder that holds it on the host
CwdFollowsCalls ==
    /\ (pc = "resolve" /\ stack # <<>>) =>
            cwd = (IF Top.phase = "call" THEN CallCwd(Top.node)
                   ELSE Join(CallCwd(Top.node), tree[Top.node].name))
    /\ pc = "ready" => cwd = root_dir
    /\ \A k \in DOMAIN files_link_list :
            Parent(files_link_list[k].path) = CallCwd(files_link_list[k].link)

\* a call that returns leaves the current directory as it found it
CwdRestored ==
    (pc = "resolve" /\ pc' \in {"resolve", "ready"} /\ Len(stack') < Len(stack)) =>
        cwd' = CallCwd(Top.node)

\* C22: every successful _parseLinks call, at every depth and for every tree
\* shape, returns with the current directory it started with, so that after
\* the resolution the current directory is the share's root directory and a
\* sibling resolved after a subfolder lies in the parent folder.
C22_ResolutionRestoresCwd == []CwdFollowsCalls /\ [][CwdRestored]_vars

\* the file that follows an empty subfolder was put beside it, and the
\* resolution ended in the root directory
C22_Witness ==
    /\ tree = TreeEmpty
    /\ pc = "ready"
    /\ cwd = root_dir
    /\ <<id, "R", "D">> \in dirs
    /\ Len(files_link_list) = 1
    /\ files_link_list[1].path = <<id, "R", "a">>

\* C23: whatever the user does in either window (pressing 'Download' again
\* while a session runs, adding entries in between), at most one
\* DownloadThread is resolving or downloading at any time.
C23_OneSessionAtATime ==
    Cardinality(Running(gui)) <= 1

\* C24: in the window of Seq-V3.py, once 'Download' has been pressed every
\* entry of the container is eventually started, also when the session of
\* an earlier entry ends by die() or by an exception.
Started(entry) == \E t \in DOMAIN gui.threads : gui.threads[t].entry = entry

\* 'Download' has just been pressed on a container holding all its entries
Pressed ==
    /\ policy = "seq"
    /\ gui.entries = MaxEntries
    /\ gui.presses > 0
    /\ gui.index = {0}
    /\ gui.threads[Len(gui.threads)] = [entry |-> 0, st |-> "init"]

C24_EveryEntryStarted ==
    Pressed ~> (\A entry \in 0..(MaxEntries - 1) : Started(entry))

\* the same, for runs in which every session ends by returning
EndsNormally ==
    \A t \in DOMAIN gui.threads : gui.threads[t].st \notin {"died", "crashed"}

EveryEntryStartedIfNormal == ([]EndsNormally) => C24_EveryEntryStarted

====
